---- MODULE Spec2Model ----
(***************************************************************************)
(* GisMapDynamic (src/unnamed/part_000): a React component that owns an    *)
(* OpenLayers map.  The model follows React's execution: a render commits, *)
(* the cleanups of the effects whose dependencies changed run, then those  *)
(* effects run in the order they are declared; an async callback keeps the *)
(* values it closed over when it was called, and its continuation runs as  *)
(* one step when the awaited promise settles.                              *)
(***************************************************************************)
EXTENDS Integers, Sequences, FiniteSets, TLC

\* ------------------------------------------------------------------ bounds
MaxSessions == 3
MaxQueries == 2
MaxClips == 2
MaxAggregates == 2
MaxCount == 27
MaxStyles == 2

\* ------------------------------------------------------- program constants
DefaultZoom == 13

\* ------------------------------------------------------------------ layers
\* An OpenLayers layer object.  name "" stands for a layer without a "name"
\* property; gen tells layer objects of the same name apart (the layers
\* makeOlObject creates are new objects each time groups is recomputed).
Layer(name, gen, visible, wms, features) ==
  [name |-> name, gen |-> gen, visible |-> visible, wms |-> wms, features |-> features]

NoLayer == Layer("<none>", 0, FALSE, FALSE, <<>>)

skipClipLayerNames == {"Aerial", "Google"}

\* The host's base layers: the same objects in every render.
baseGroups ==
  << Layer("Aerial", 0, TRUE, FALSE, <<>>), Layer("Google", 0, FALSE, TRUE, <<>>) >>

\* The host's layerJson values: 0 is null, the others carry children.
LayerJsons == {0, 1, 2}

children(layerJson) ==
  CASE layerJson = 1 ->
         << [name |-> "Hospital Birth", visible |-> TRUE, wms |-> TRUE],
            [name |-> "", visible |-> TRUE, wms |-> TRUE] >>
    [] layerJson = 2 ->
         << [name |-> "Parcels", visible |-> TRUE, wms |-> TRUE],
            [name |-> "Sketch", visible |-> TRUE, wms |-> FALSE],
            [name |-> "Roads", visible |-> FALSE, wms |-> TRUE] >>
    [] OTHER -> << >>

makeOlObject(node, gen) == Layer(node.name, gen, node.visible, node.wms, <<>>)

\* useMemo(groups): base layers followed by the layers made from layerJson.
groupsOf(layerJson, gen) ==
  LET ch == children(layerJson)
  IN baseGroups \o [i \in 1..Len(ch) |-> makeOlObject(ch[i], gen)]

Centers == {1, 2}
Zooms == {DefaultZoom, DefaultZoom + 1}

\* Map coordinates (EPSG:3857) of pointer events, and what ol/proj transform
\* makes of them in EPSG:4326.
Coordinates == {<<100, 200>>, <<300, 400>>}
transform(coordinate) == <<coordinate[1] \div 100, coordinate[2] \div 100>>

\* ---------------------------------------------------------------- variables
VARIABLES
  props,                \* the host's props of the last render
  groups,               \* the memoized layer array
  mounted,              \* the component is mounted
  mapRef,               \* mapRef.current: a session number, 0 for null
  maps,                 \* every Map constructed so far, by session number
  summary,              \* useState: cluster aggregates
  clusterLayer,         \* useState: the cluster layer last built
  navigationCropFilter, \* useState: the crop filter last applied
  clippedBoundary,      \* useState: the outline layer last added
  legendUrls,           \* useState: the displayed legends
  pointerLonLat,        \* useState: the pointer position shown
  layerFilters,         \* the filters layer objects carry: pairs <<layer, filter>>
  clearedSources,       \* outline layers whose source was cleared
  clipCount,            \* clip() calls that reached fetchBoundary so far
  queries,              \* getSDTV calls in flight
  refreshes,            \* getClusterCount calls in flight
  clips,                \* fetchBoundary calls in flight
  legendBuilds,         \* legend batches in flight
  ev,                   \* the event dispatched last, with the calls it made
  spent,                \* a click made since the last arm() was answered Found
  overlapped,           \* some clip() was called while another was in flight
  styleCache            \* the module's styleCache: count -> style object

hostVars == <<props, groups>>
sessVars == <<mounted, mapRef, maps>>
clusterVars == <<summary, clusterLayer, refreshes>>
clipVars == <<navigationCropFilter, clippedBoundary, layerFilters, clearedSources,
              clipCount, clips, overlapped>>
legendVars == <<legendUrls, legendBuilds>>
identifyVars == <<queries, spent>>
styleVars == <<styleCache>>

vars == <<hostVars, sessVars, clusterVars, clipVars, legendVars, identifyVars,
          pointerLonLat, styleVars, ev>>

\* What a promise settled with: kind tells how, val is the value.
Res(kind, val) == [kind |-> kind, val |-> val]
NoRes == Res("none", <<>>)

\* A call the component makes on the host or on the map: f is the function,
\* arg its argument.
Call(f, arg) == [f |-> f, arg |-> arg]

\* An event: op names it, id is the session or request it belongs to, res is
\* what it delivered, calls are the calls the handler made, in order.
Ev(op, id, res, calls) == [op |-> op, id |-> id, res |-> res, calls |-> calls]

Made(e, f) == \E i \in 1..Len(e.calls) : e.calls[i].f = f
CountMade(e, f) == Cardinality({i \in 1..Len(e.calls) : e.calls[i].f = f})

\* ---------------------------------------------------------------- sessions
CustomControls == {"Scale", "ScaleLine", "Compass"}

\* new Map({...}), map.addControl(progressBar), map.on("pointermove", ...)
NewMap(layers, freezeMap) ==
  [ layers |-> layers,
    controls |-> (IF freezeMap THEN {} ELSE {"defaults"} \cup CustomControls)
                   \cup {"ProgressBar"},
    interactions |-> IF freezeMap THEN {} ELSE {"defaults"},
    listeners |-> {"pointermove"},
    target |-> TRUE,
    disposed |-> FALSE ]

\* map.dispose(): OpenLayers clears the controls, the interactions and the
\* listeners and releases the target.
Dispose(m) ==
  [m EXCEPT !.controls = {}, !.interactions = {}, !.listeners = {},
            !.target = FALSE, !.disposed = TRUE]

CleanupKeepsMap(m) == [m EXCEPT !.listeners = @ \ {"pointermove"}]

\* The cleanup the map effect returns.
Cleanup(m) ==
  LET m1 == [m EXCEPT !.listeners = @ \ {"pointermove"}]
      m2 == [m1 EXCEPT !.controls = @ \ CustomControls]
      m3 == [m2 EXCEPT !.target = FALSE]
  IN Dispose(m3)

Find(layers, name) ==
  LET hits == {i \in 1..Len(layers) : layers[i].name = name}
  IN IF hits = {} THEN 0 ELSE CHOOSE i \in hits : \A j \in hits : i <= j

isBirthCertificateLayerVisible(m) ==
  LET i == Find(m.layers, "Hospital Birth")
  IN i # 0 /\ m.layers[i].visible

\* The visible layers that have both LAYERS and a source URL, in map order.
LegendTargets(m) == SelectSeq(m.layers, LAMBDA l : l.visible /\ l.wms)

Live(m) == m.target /\ ~m.disposed


\* ------------------------------------------------------------ mount (Init)
\* The effect of line 193: the permanent click handler, on the map of the
\* render in which the effect ran.
installPulse(m) == [m EXCEPT !.listeners = @ \cup {"pulse"}]

\* The host's makeLegendUrl, of a layer's first source URL and LAYERS param.
makeLegendUrl(layer) == <<"GetLegendGraphic", layer.name>>

\* The effect of line 218, on map m of session s: the refresh it starts, ...
refreshOnGroups(m, s) == IF isBirthCertificateLayerVisible(m) THEN {s} ELSE {}
\* ... the legend batch it starts, ...
legendOnGroups(m, s) == {[id |-> s, layers |-> LegendTargets(m)]}
\* ... and the calls it makes on the host.
callsOnGroups(m) ==
  (IF isBirthCertificateLayerVisible(m) THEN <<Call("getClusterCount", <<>>)>> ELSE <<>>)
  \o [i \in 1..Len(LegendTargets(m)) |->
        Call("buildLegendBlob", makeLegendUrl(LegendTargets(m)[i]))]

\* A crop filter: id tells filter objects apart, coordinates are those of the
\* multi-polygon it masks with.
CropFilter(id, coordinates) == [id |-> id, coordinates |-> coordinates]

NoBody == [table |-> "", column |-> "", id |-> ""]
NoFilter == CropFilter(0, <<>>)

InitProps ==
  [layerJson : LayerJsons, centerLonLat : {1}, initialZoom : {DefaultZoom},
   freezeMap : BOOLEAN, initialClip : {NoBody}]

Init ==
  /\ props \in InitProps
  /\ groups = groupsOf(props.layerJson, 1)
  /\ mounted = TRUE
  /\ mapRef = 1
  /\ maps = << installPulse(NewMap(groups, props.freezeMap)) >>
  /\ summary = [req |-> 0, items |-> <<>>]
  /\ clusterLayer = NoLayer
  /\ navigationCropFilter = NoFilter
  /\ clippedBoundary = NoLayer
  /\ legendUrls = <<>>
  /\ pointerLonLat = <<0, 0>>
  /\ layerFilters = {}
  /\ clearedSources = {}
  /\ clipCount = 0
  /\ queries = {}
  /\ refreshes = refreshOnGroups(NewMap(groups, props.freezeMap), 1)
  /\ clips = {}
  /\ legendBuilds = legendOnGroups(NewMap(groups, props.freezeMap), 1)
  /\ ev = Ev("mount", 1, NoRes,
             <<Call("onMapReady", 1)>> \o callsOnGroups(NewMap(groups, props.freezeMap)))
  /\ spent = FALSE
  /\ overlapped = FALSE
  /\ styleCache = << >>

\* The mount of a host that leaves freezeMap at its default.
InitUnfrozen == Init /\ props.freezeMap = FALSE

\* ------------------------------------------------------- session lifecycle
\* A render in which a dependency of the map effect (line 151) changed: the
\* cleanup of the old session, then the effect again.  When groups changed
\* the effect of line 218 runs after it, on the new map.
Rebuild(np, ng, groupsChanged) ==
  /\ mounted
  /\ Len(maps) < MaxSessions
  /\ LET s == Len(maps) + 1
         m == NewMap(ng, np.freezeMap)
     IN /\ maps' = Append([maps EXCEPT ![mapRef] = Cleanup(@)], m)
        /\ mapRef' = s
        /\ refreshes' = IF groupsChanged THEN refreshes \cup refreshOnGroups(m, s)
                        ELSE refreshes
        /\ legendBuilds' = IF groupsChanged THEN legendBuilds \cup legendOnGroups(m, s)
                           ELSE legendBuilds
        /\ ev' = Ev("render", s, NoRes,
                    <<Call("onMapReady", s)>>
                      \o (IF groupsChanged THEN callsOnGroups(m) ELSE <<>>))
  /\ props' = np
  /\ groups' = ng
  /\ UNCHANGED <<mounted, summary, clusterLayer, clipVars, legendUrls, identifyVars,
                 pointerLonLat, styleVars>>

\* The host passes another layerJson (or an equal one that is a new object).
ChangeLayerJson ==
  \E lj \in LayerJsons :
    Rebuild([props EXCEPT !.layerJson = lj], groupsOf(lj, Len(maps) + 1), TRUE)

ChangeCenter ==
  \E c \in Centers \ {props.centerLonLat} :
    Rebuild([props EXCEPT !.centerLonLat = c], groups, FALSE)

ChangeZoom ==
  \E z \in Zooms \ {props.initialZoom} :
    Rebuild([props EXCEPT !.initialZoom = z], groups, FALSE)

ChangeFreeze == Rebuild([props EXCEPT !.freezeMap = ~@], groups, FALSE)

\* Unmount: the cleanups of the map effect (line 144) and of the click
\* handler effect (line 199), which closed over the first session's map.
Unmount ==
  /\ mounted
  /\ mounted' = FALSE
  /\ mapRef' = 0
  /\ maps' = LET a == [maps EXCEPT ![mapRef] = Cleanup(@)]
             IN [a EXCEPT ![1].listeners = @ \ {"pulse"}]
  /\ ev' = Ev("unmount", 0, NoRes, <<>>)
  /\ UNCHANGED <<hostVars, clusterVars, clipVars, legendVars, identifyVars,
                 pointerLonLat, styleVars>>

\* onPointerMove (line 136)
PointerMove ==
  \E c \in Coordinates :
    /\ mapRef # 0
    /\ Live(maps[mapRef])
    /\ "pointermove" \in maps[mapRef].listeners
    /\ pointerLonLat' = transform(c)
    /\ ev' = Ev("pointermove", mapRef, Res("coordinate", c), <<>>)
    /\ UNCHANGED <<hostVars, sessVars, clusterVars, clipVars, legendVars,
                   identifyVars, styleVars>>

\* ------------------------------------------------------ identify interaction
\* addIdentifyPointMode (line 273): map.on keeps one entry per listener.
addIdentifyPointMode ==
  /\ mapRef # 0
  /\ maps' = [maps EXCEPT ![mapRef].listeners = @ \cup {"identify"}]
  /\ queries' = {[q EXCEPT !.fresh = FALSE] : q \in queries}
  /\ spent' = FALSE
  /\ ev' = Ev("arm", mapRef, NoRes, <<>>)
  /\ UNCHANGED <<hostVars, mounted, mapRef, clusterVars, clipVars, legendVars,
                 pointerLonLat, styleVars>>

wktPoint(coordinate) == <<"POINT", transform(coordinate)[1], transform(coordinate)[2]>>

FreeQuery == CHOOSE i \in 1..(MaxQueries + 1) : \A q \in queries : q.id # i

\* A singleclick on the live map: every installed click listener runs.  The
\* permanent handler animates (line 197); villageClickEvent animates and
\* calls getSDTV (lines 171-180).
Click ==
  \E c \in Coordinates :
    /\ mapRef # 0
    /\ Live(maps[mapRef])
    /\ LET permanent == "pulse" \in maps[mapRef].listeners
           identify == "identify" \in maps[mapRef].listeners
       IN /\ identify => Cardinality(queries) < MaxQueries
          /\ queries' = IF identify
                          THEN queries \cup {[id |-> FreeQuery, map |-> mapRef,
                                               fresh |-> TRUE]}
                          ELSE queries
          /\ ev' = Ev("click", mapRef, Res("coordinate", c),
                      (IF permanent THEN <<Call("animateFeature", "bound")>> ELSE <<>>)
                      \o (IF identify
                            THEN <<Call("animateFeature", "villageClickEvent"),
                                   Call("getSDTV", wktPoint(c))>>
                            ELSE <<>>))
    /\ UNCHANGED <<hostVars, sessVars, clusterVars, clipVars, legendVars,
                   spent, pointerLonLat, styleVars>>

\* What getSDTV settles with: 0 is a falsy first record.
SDTVResults ==
  { Res("array", <<>>), Res("array", <<0>>), Res("array", <<1>>),
    Res("array", <<2, 1>>), Res("nullish", <<>>), Res("reject", <<>>) }

\* resp?.[0]
First(resp) ==
  IF resp.kind = "array" /\ Len(resp.val) > 0 THEN resp.val[1] ELSE 0

villageClickFinallyKeeps(m) == m

\* finally { map.un("singleclick", villageClickEvent) } (line 189)
villageClickFinally(m) == [m EXCEPT !.listeners = @ \ {"identify"}]

villageClickReportSwapped(resp) ==
  IF resp.kind = "reject" THEN <<Call("notify.warn", <<>>)>>
  ELSE IF First(resp) # 0 THEN <<Call("onPointSelected", First(resp))>>
  ELSE <<Call("notify.error", <<>>)>>

\* lines 179-187: what the settled query is reported with
villageClickReport(resp) ==
  IF resp.kind = "reject" THEN <<Call("notify.error", <<>>)>>
  ELSE IF First(resp) # 0 THEN <<Call("onPointSelected", First(resp))>>
  ELSE <<Call("notify.warn", <<>>)>>

\* The continuation of villageClickEvent after await getSDTV (lines 180-190).
GetSDTVSettles ==
  \E q \in queries, resp \in SDTVResults :
    /\ queries' = queries \ {q}
    /\ maps' = [maps EXCEPT ![q.map] = villageClickFinally(@)]
    /\ ev' = Ev("getSDTV", q.map, resp, villageClickReport(resp))
    /\ spent' = (spent \/ (q.fresh /\ Made(ev', "onPointSelected")))
    /\ UNCHANGED <<hostVars, mounted, mapRef, clusterVars, clipVars, legendVars,
                   pointerLonLat, styleVars>>

\* ---------------------------------------------------------- cluster pipeline
Aggregates ==
  { [lon |-> 10, lat |-> 20, count |-> 30], [lon |-> 11, lat |-> 21, count |-> 5] }

SeqsUpTo(S, n) == UNION {[1..k -> S] : k \in 0..n}

\* What getClusterCount settles with: an array, something that is no array,
\* or a rejection.
ClusterResults ==
  {Res("array", items) : items \in SeqsUpTo(Aggregates, MaxAggregates)}
    \cup {Res("other", <<>>), Res("reject", <<>>)}

\* What ol/proj transform makes of EPSG:4326 coordinates in EPSG:3857.
fromLonLat(lonLat) == <<lonLat[1] * 100, lonLat[2] * 100>>

\* lines 241-246: the point feature of one aggregate, tagged with its count
clusterFeature(item) == [geometry |-> fromLonLat(<<item.lon, item.lat>>), count |-> item.count]

\* lines 238-257: the layer built from the aggregates of request r
buildClusterLayer(items, r) ==
  Layer("cluster-layer", r, TRUE, FALSE,
        [i \in 1..Len(items) |-> clusterFeature(items[i])])

removeAt(layers, i) ==
  IF i = 0 THEN layers ELSE SubSeq(layers, 1, i - 1) \o SubSeq(layers, i + 1, Len(layers))

refreshClusterSummaryClearsOnError(prev, r, resp) ==
  IF resp.kind = "array" THEN [req |-> r, items |-> resp.val]
  ELSE [req |-> r, items |-> <<>>]

\* refreshClusterSummary after await getClusterCount (lines 211-214): the
\* value of summary afterwards.
refreshClusterSummary(prev, r, resp) ==
  IF resp.kind = "reject" THEN prev
  ELSE IF resp.kind = "array" THEN [req |-> r, items |-> resp.val]
  ELSE [req |-> r, items |-> <<>>]

summaryEffectAddsOnly(m, s) ==
  IF Len(s.items) = 0 THEN m
  ELSE IF isBirthCertificateLayerVisible(m)
    THEN [m EXCEPT !.layers = Append(@, buildClusterLayer(s.items, s.req))]
    ELSE m

\* The effect of line 226 on map m, for the new summary s.
summaryEffect(m, s) ==
  LET removed == [m EXCEPT !.layers = removeAt(@, Find(@, "cluster-layer"))]
  IN IF Len(s.items) = 0 THEN removed
     ELSE IF isBirthCertificateLayerVisible(removed)
       THEN [removed EXCEPT !.layers = Append(@, buildClusterLayer(s.items, s.req))]
       ELSE removed

\* The continuation of refreshClusterSummary, and the render that follows
\* when summary was set (a state update of an unmounted component is
\* dropped).
GetClusterCountSettles ==
  \E r \in refreshes, resp \in ClusterResults :
    LET s == refreshClusterSummary(summary, r, resp)
        rendered == mounted /\ s # summary
    IN /\ refreshes' = refreshes \ {r}
       /\ summary' = IF rendered THEN s ELSE summary
       /\ maps' = IF rendered THEN [maps EXCEPT ![mapRef] = summaryEffect(@, s)] ELSE maps
       /\ clusterLayer' = IF ~rendered THEN clusterLayer
                          ELSE IF Len(s.items) = 0 THEN NoLayer
                          ELSE buildClusterLayer(s.items, s.req)
       /\ ev' = Ev("getClusterCount", r, resp,
                   IF resp.kind = "reject" THEN <<Call("notify.error", <<>>)>> ELSE <<>>)
       /\ UNCHANGED <<hostVars, mounted, mapRef, clipVars, legendVars, identifyVars,
                      pointerLonLat, styleVars>>

NextCluster ==
  \/ ChangeLayerJson \/ ChangeCenter \/ Unmount \/ GetClusterCountSettles

SpecCluster == Init /\ [][NextCluster]_vars

\* ------------------------------------------------------------- clip pipeline
Bodies ==
  { [table |-> "district", column |-> "gid", id |-> "7"],
    [table |-> "district", column |-> "gid", id |-> "9"] }

\* The geojson texts a boundary row may carry, and what JSON.parse makes of
\* them ("" stands for a missing or empty st_asgeojson).
PolygonText == "FeatureCollection[Feature[MultiPolygon[square]]]"
EmptyCollectionText == "FeatureCollection[]"
GeoJsonTexts == {"", EmptyCollectionText, PolygonText}

Square == << << <<0, 0>>, <<0, 1>>, <<1, 1>>, <<1, 0>>, <<0, 0>> >> >>

jsonParse(text) ==
  CASE text = PolygonText ->
         [type |-> "FeatureCollection",
          features |-> << [type |-> "MultiPolygon", coordinates |-> <<Square>>] >>]
    [] text = EmptyCollectionText -> [type |-> "FeatureCollection", features |-> <<>>]
    [] OTHER -> [type |-> "", features |-> <<>>]

\* What fetchBoundary settles with.
BoundaryResults ==
  { Res("reject", <<>>), Res("array", <<>>) }
    \cup {Res("array", <<[st_asgeojson |-> t]>>) : t \in GeoJsonTexts}

\* res?.[0]?.st_asgeojson || "{}" (line 289)
geojsonText(resp) ==
  IF Len(resp.val) > 0 /\ resp.val[1].st_asgeojson # "" THEN resp.val[1].st_asgeojson
  ELSE "{}"

\* GeoJSON.readFeatures (line 291): the features of a FeatureCollection,
\* reprojected; an object that is no GeoJSON object makes it throw.
readFeatures(featureCollection) ==
  IF featureCollection.type = "FeatureCollection"
    THEN [threw |-> FALSE,
          features |-> [i \in 1..Len(featureCollection.features) |->
                          [geometry |-> featureCollection.features[i].coordinates]]]
    ELSE [threw |-> TRUE, features |-> <<>>]

\* lines 304-307: the coordinates of the last feature, [] when there is none
maskCoordinates(features) ==
  IF Len(features) = 0 THEN <<>> ELSE features[Len(features)].geometry

\* map.removeLayer(layer)
removeLayer(layers, layer) == SelectSeq(layers, LAMBDA l : l # layer)

clipExemptUnnamedToo(layer) == layer.name = "" \/ layer.name \in skipClipLayerNames

\* nm && skipClipLayerNames.includes(nm) (line 315)
clipExempt(layer) == layer.name # "" /\ layer.name \in skipClipLayerNames

\* lyr.removeFilter(filter): ol-ext removes every filter of the layer when
\* it is given none.
removeFilter(filters, layer, filter) ==
  IF filter = NoFilter THEN {p \in filters : p[1] # layer}
  ELSE filters \ {<<layer, filter>>}

retireKeepsOld(filters, layer, old) == filters

\* lyr.removeFilter?.(navigationCropFilter) (line 317)
retire(filters, layer, old) == removeFilter(filters, layer, old)

\* lines 313-320: every layer of the map that is not exempt loses the old
\* filter and gets the new one.
RECURSIVE applyMask(_, _, _, _)
applyMask(filters, layers, old, crop) ==
  IF Len(layers) = 0 THEN filters
  ELSE LET lyr == Head(layers)
           next == IF clipExempt(lyr) THEN filters
                   ELSE retire(filters, lyr, old) \cup {<<lyr, crop>>}
       IN applyMask(next, Tail(layers), old, crop)

\* The effect of line 266, for a new initialClip object: clip(initialClip)
\* up to its await (lines 280-288).  The call keeps the clippedBoundary and
\* navigationCropFilter of the render it was created in; again tells that
\* the request equals the one of the previous initialClip.
SetInitialClip ==
  \E body \in Bodies :
    /\ mounted
    /\ clipCount < MaxClips
    /\ props' = [props EXCEPT !.initialClip = body]
    /\ clipCount' = clipCount + 1
    /\ clearedSources' = IF clippedBoundary # NoLayer
                           THEN clearedSources \cup {clippedBoundary}
                           ELSE clearedSources
    /\ maps' = IF clippedBoundary # NoLayer
                 THEN [maps EXCEPT ![mapRef].layers = removeLayer(@, clippedBoundary)]
                 ELSE maps
    /\ clips' = clips \cup {[id |-> clipCount + 1, map |-> mapRef,
                             navigationCropFilter |-> navigationCropFilter,
                             body |-> body, again |-> body = props.initialClip]}
    /\ overlapped' = (overlapped \/ clips # {})
    /\ ev' = Ev("clip", clipCount + 1, NoRes, <<Call("fetchBoundary", body)>>)
    /\ UNCHANGED <<groups, mounted, mapRef, clusterVars, navigationCropFilter,
                   clippedBoundary, layerFilters, legendVars, identifyVars,
                   pointerLonLat, styleVars>>

clipCatchSilent(failed) == << >>

\* clip(initialClip).catch((e) => notify?.error?.(...)) (line 268)
clipCatch(failed) == IF failed THEN <<Call("notify.error", <<>>)>> ELSE << >>

\* The continuation of clip after await fetchBoundary (lines 288-322); a
\* rejection or an exception ends in the catch of line 268.
FetchBoundarySettles ==
  \E c \in clips, resp \in BoundaryResults :
    LET read == readFeatures(jsonParse(geojsonText(resp)))
        failed == resp.kind = "reject" \/ read.threw
        layer == Layer("navigation-boundary", c.id, TRUE, FALSE, read.features)
        crop == CropFilter(c.id, maskCoordinates(read.features))
        added == [maps EXCEPT ![c.map].layers = Append(@, layer)]
    IN /\ clips' = clips \ {c}
       /\ maps' = IF failed THEN maps ELSE added
       /\ clippedBoundary' = IF failed \/ ~mounted THEN clippedBoundary ELSE layer
       /\ layerFilters' = IF failed THEN layerFilters
                          ELSE applyMask(layerFilters, added[c.map].layers,
                                         c.navigationCropFilter, crop)
       /\ navigationCropFilter' = IF failed \/ ~mounted THEN navigationCropFilter
                                  ELSE crop
       /\ ev' = Ev("fetchBoundary", c, resp, clipCatch(failed))
       /\ UNCHANGED <<hostVars, mounted, mapRef, clusterVars, clearedSources,
                      clipCount, overlapped, legendVars, identifyVars, pointerLonLat, styleVars>>

NextClip ==
  \/ ChangeLayerJson \/ ChangeCenter \/ SetInitialClip \/ FetchBoundarySettles

SpecClip == InitUnfrozen /\ [][NextClip]_vars

\* ----------------------------------------------------------- legend pipeline
\* URL.createObjectURL(blob): a new non-empty handle for the blob fetched for
\* a layer by batch b; the empty string is the empty sequence.
createObjectURL(layer, b) == <<"blob", layer.name, b>>
EmptyString == << >>

\* One outcome per legend fetch of a batch: TRUE resolved, FALSE rejected.
LegendOutcomes(b) == [1..Len(b.layers) -> BOOLEAN]

\* An all-or-nothing batch: any rejection empties the list.
legendUrlsAllOrNothing(b, ok) ==
  IF \E i \in 1..Len(b.layers) : ~ok[i] THEN << >>
  ELSE [i \in 1..Len(b.layers) |-> createObjectURL(b.layers[i], b.id)]

\* Lines 338-345: each promise resolves to a handle, or to "" when the fetch
\* rejected; Promise.all keeps the order, filter(Boolean) drops the "".
legendUrlsOf(b, ok) ==
  LET settled == [i \in 1..Len(b.layers) |->
                    IF ok[i] THEN createObjectURL(b.layers[i], b.id) ELSE EmptyString]
  IN SelectSeq(settled, LAMBDA u : u # EmptyString)

\* The continuation of buildLegendsForVisibleWmsLayers after await
\* Promise.all (lines 345-346); setLegendUrls of an unmounted component is
\* dropped.
LegendSettles ==
  \E b \in legendBuilds :
    \E ok \in LegendOutcomes(b) :
      /\ legendBuilds' = legendBuilds \ {b}
      /\ legendUrls' = IF mounted THEN legendUrlsOf(b, ok) ELSE legendUrls
      /\ ev' = Ev("legend", b, Res("settled", ok), <<>>)
      /\ UNCHANGED <<hostVars, sessVars, clusterVars, clipVars, identifyVars,
                     pointerLonLat, styleVars>>

NextLegend ==
  \/ ChangeLayerJson \/ ChangeCenter \/ Unmount \/ LegendSettles

SpecLegend == Init /\ [][NextLegend]_vars

\* -------------------------------------------------------------- cluster style
\* The counts a cluster's first feature may carry: 0 stands for a missing or
\* zero count (falsy).
Sizes == 0..MaxCount

\* A Style object: id tells objects apart, radius4 is the radius in quarters
\* (0.75 * size is a multiple of 1/4), text is the label.
Style(id, color, radius4, text) ==
  [id |-> id, color |-> color, radius4 |-> radius4, text |-> text]

\* return undefined (line 389)
NoStyle == Style(0, "", 0, 0)

Max(a, b) == IF a >= b THEN a ELSE b
Min(a, b) == IF a <= b THEN a ELSE b

clusterColorInclusive(size) ==
  IF size >= 25 THEN "192,0,0" ELSE IF size >= 8 THEN "255,128,0" ELSE "0,128,0"

\* line 394
clusterColor(size) ==
  IF size > 25 THEN "192,0,0" ELSE IF size > 8 THEN "255,128,0" ELSE "0,128,0"

\* line 395, in quarters: Math.max(8, Math.min(size * 0.75, 20))
clusterRadius4(size) == Max(32, Min(size * 3, 80))

cacheHitNever(cache, size) == FALSE

\* if (styleCache[key]) (line 392): key is String(size), one key per count
cacheHit(cache, size) == size \in DOMAIN cache

\* new Style({...}) (lines 399-406): an object no earlier call created
newStyle(cache, size) ==
  Style(Cardinality(DOMAIN cache) + 1, clusterColor(size), clusterRadius4(size), size)

\* makeClusterStyle (lines 386-410), called by the renderer for a cluster
\* whose first feature carries count size.
makeClusterStyle ==
  \E size \in Sizes :
    /\ (size # 0 /\ ~cacheHit(styleCache, size)) =>
         Cardinality(DOMAIN styleCache) < MaxStyles
    /\ LET style == IF size = 0 THEN NoStyle
                    ELSE IF cacheHit(styleCache, size) THEN styleCache[size]
                    ELSE newStyle(styleCache, size)
       IN /\ styleCache' = IF size = 0 \/ cacheHit(styleCache, size) THEN styleCache
                           ELSE (size :> style) @@ styleCache
          /\ ev' = Ev("style", size, Res("style", style), <<>>)
    /\ UNCHANGED <<hostVars, sessVars, clusterVars, clipVars, legendVars,
                   identifyVars, pointerLonLat>>

\* Clips and cluster refreshes of one session.
NextMask ==
  \/ SetInitialClip \/ FetchBoundarySettles \/ GetClusterCountSettles

SpecMask == InitUnfrozen /\ [][NextMask]_vars

NextStyle ==
  \/ ChangeCenter \/ Unmount \/ makeClusterStyle

SpecStyle == Init /\ [][NextStyle]_vars

NextIdentify ==
  \/ ChangeCenter \/ Unmount \/ addIdentifyPointMode \/ Click \/ GetSDTVSettles

SpecIdentify == Init /\ [][NextIdentify]_vars

NextSession ==
  \/ ChangeLayerJson \/ ChangeCenter \/ ChangeZoom \/ ChangeFreeze \/ Unmount
  \/ PointerMove

SpecSession == Init /\ [][NextSession]_vars

\* ------------------------------------------------------------------ claims
\* C1: identify is single-shot.  Once a click made after the last arm() has
\* been answered with a non-empty first record (Found), and arm() has not
\* been called since that click, a further click calls neither getSDTV nor
\* onPointSelected.
C1_SingleShot ==
  (ev.op = "click" /\ spent) =>
    (~Made(ev, "getSDTV") /\ ~Made(ev, "onPointSelected"))

C1_Witness == ev.op = "click" /\ spent /\ mounted

\* C2: a settled point query is reported with exactly one call: a non-empty
\* first record with onPointSelected(record), an empty list with
\* notify.warn, a rejection with notify.error; and afterwards the identify
\* listener is not installed on the map that was clicked.
C2_Outcome ==
  ev.op = "getSDTV" =>
    /\ Len(ev.calls) = 1
    /\ (ev.res.kind = "array" /\ Len(ev.res.val) > 0 /\ ev.res.val[1] # 0)
         => (ev.calls[1].f = "onPointSelected" /\ ev.calls[1].arg = ev.res.val[1])
    /\ (ev.res.kind = "array" /\ Len(ev.res.val) = 0)
         => ev.calls[1].f = "notify.warn"
    /\ ev.res.kind = "reject" => ev.calls[1].f = "notify.error"
    /\ "identify" \notin maps[ev.id].listeners

C2_Witness ==
  /\ ev.op = "getSDTV" /\ ev.res.kind = "array" /\ Len(ev.res.val) = 0
  /\ mapRef = ev.id

\* C7: at most one session is live; every session but the current one is
\* torn down (pointer listener detached, custom controls removed, target
\* released, disposed); mapRef names the newest session while mounted and
\* is null after unmount; onMapReady is called once, with the new session,
\* by each step that constructs one and by no other step.
TornDown(m) ==
  /\ "pointermove" \notin m.listeners
  /\ m.controls \cap CustomControls = {}
  /\ ~m.target
  /\ m.disposed

C7_OneLiveSession ==
  /\ Cardinality({s \in 1..Len(maps) : Live(maps[s])}) <= 1
  /\ \A s \in 1..Len(maps) : s # mapRef => TornDown(maps[s])
  /\ mounted => (mapRef = Len(maps) /\ Live(maps[mapRef]))
  /\ ~mounted => mapRef = 0
  /\ ev.op \in {"mount", "render"} =>
       /\ CountMade(ev, "onMapReady") = 1
       /\ ev.calls[1].f = "onMapReady" /\ ev.calls[1].arg = Len(maps)
  /\ ev.op \notin {"mount", "render"} => ~Made(ev, "onMapReady")

C7_Witness == Len(maps) >= 3 /\ ev.op = "render" /\ TornDown(maps[2])

\* C8: every click on a live session is animated by the permanent click
\* handler, in the first session and in every rebuilt one.
C8_PermanentPulse ==
  ev.op = "click" =>
    \E i \in 1..Len(ev.calls) :
      ev.calls[i].f = "animateFeature" /\ ev.calls[i].arg = "bound"

\* C6: cluster overlay replacement is total.  After a refresh is answered
\* with N aggregates, the live map holds at most one "cluster-layer"; with
\* the gating layer visible it holds none when N = 0 and otherwise exactly
\* one, whose N features carry the counts of the N aggregates, in order.
ClusterLayersOf(m) == {i \in 1..Len(m.layers) : m.layers[i].name = "cluster-layer"}

C6_ReplacementTotal ==
  /\ \A s \in 1..Len(maps) : Cardinality(ClusterLayersOf(maps[s])) <= 1
  /\ (ev.op = "getClusterCount" /\ ev.res.kind = "array" /\ mounted
        /\ isBirthCertificateLayerVisible(maps[mapRef])) =>
       LET m == maps[mapRef]
           n == Len(ev.res.val)
       IN IF n = 0 THEN ClusterLayersOf(m) = {}
          ELSE \E i \in ClusterLayersOf(m) :
                 /\ Len(m.layers[i].features) = n
                 /\ \A k \in 1..n : m.layers[i].features[k].count = ev.res.val[k].count

\* The refresh of session 2 is answered with one aggregate after the first
\* session's overlay was built from two.
C6_Witness ==
  /\ ev.op = "getClusterCount" /\ ev.id = 2 /\ mounted /\ mapRef = 2
  /\ ev.res.kind = "array" /\ Len(ev.res.val) = 1
  /\ \E i \in ClusterLayersOf(maps[1]) : Len(maps[1].layers[i].features) = 2
  /\ \E i \in ClusterLayersOf(maps[2]) : Len(maps[2].layers[i].features) = 1

\* C9: a rejected cluster fetch is reported on notify.error and changes
\* neither the stored aggregates nor any layer of any map.
C9_RejectedRefresh ==
  [][(ev'.op = "getClusterCount" /\ ev'.res.kind = "reject" /\ ev' # ev) =>
       /\ Made(ev', "notify.error")
       /\ summary' = summary
       /\ clusterLayer' = clusterLayer
       /\ maps' = maps]_vars

C9_Witness ==
  /\ ev.op = "getClusterCount" /\ ev.res.kind = "reject"
  /\ mounted /\ Len(summary.items) > 0 /\ ClusterLayersOf(maps[mapRef]) # {}

\* The clip whose fetch settled last applied its mask (no rejection, no
\* exception), and the filter it made.
ClipApplied == ev.op = "fetchBoundary" /\ ~Made(ev, "notify.error")
FiltersOf(layer) == {p[2] : p \in {q \in layerFilters : q[1] = layer}}
OutlinesOf(m) == {i \in 1..Len(m.layers) : m.layers[i].name = "navigation-boundary"}

\* C3: clip is idempotent in effect.  When no clip() was ever called while
\* another was in flight, a clip that applies its mask leaves exactly one
\* "navigation-boundary" layer on its map, and every layer of that map that
\* is not exempt carries exactly one filter, the one this clip made.
C3_ClipIdempotent ==
  (ClipApplied /\ ~overlapped) =>
    LET m == maps[ev.id.map]
    IN /\ Cardinality(OutlinesOf(m)) = 1
       /\ \A i \in 1..Len(m.layers) :
            m.layers[i].name \notin skipClipLayerNames =>
              /\ Cardinality(FiltersOf(m.layers[i])) = 1
              /\ \A f \in FiltersOf(m.layers[i]) : f.id = ev.id.id

\* The second of two clips with the same request, made after the first had
\* applied its mask, has applied its own.
C3_Witness ==
  /\ ClipApplied /\ ~overlapped
  /\ ev.id.again /\ ev.id.navigationCropFilter # NoFilter
  /\ ev.id.navigationCropFilter.coordinates # <<>>
  /\ ev.id.map = mapRef

\* C4: after a clip that applies its mask, no layer of its map whose name
\* is in skipClipLayerNames carries the new filter, and every other layer
\* of the map (unnamed layers and the new outline layer included) does.
C4_Exemption ==
  ClipApplied =>
    LET m == maps[ev.id.map]
    IN \A i \in 1..Len(m.layers) :
         (m.layers[i].name \in skipClipLayerNames)
           <=> (\A f \in FiltersOf(m.layers[i]) : f.id # ev.id.id)

C4_Witness ==
  /\ ClipApplied /\ ev.id.map = mapRef
  /\ \E i \in 1..Len(maps[mapRef].layers) : maps[mapRef].layers[i].name = ""
  /\ \E i \in 1..Len(maps[mapRef].layers) : maps[mapRef].layers[i].name = "Aerial"

\* C5: when the boundary fetch resolves with no geometry (an empty list, a
\* missing or empty geojson text, a text that holds no feature), clip()
\* attaches no mask filter to any layer and adds no outline layer.
NoGeometry(resp) ==
  /\ resp.kind = "array"
  /\ \/ Len(resp.val) = 0
     \/ resp.val[1].st_asgeojson = ""
     \/ resp.val[1].st_asgeojson = EmptyCollectionText

C5_EmptyGeometrySafeguard ==
  (ev.op = "fetchBoundary" /\ NoGeometry(ev.res)) =>
    /\ \A p \in layerFilters : p[2].id # ev.id.id
    /\ \A i \in OutlinesOf(maps[ev.id.map]) : maps[ev.id.map].layers[i].gen # ev.id.id

\* C10: after a legend batch settles in a mounted component, the displayed
\* list holds, in the order the layers were enumerated, the handle of every
\* enumerated layer (visible, with LAYERS and a source URL) whose fetch
\* resolved and nothing else; the settle makes no call on the notifier.
Resolved(e) == {i \in 1..Len(e.id.layers) : e.res.val[i]}
Rank(S, i) == Cardinality({j \in S : j <= i})

C10_LegendList ==
  (ev.op = "legend" /\ mounted) =>
    /\ Len(legendUrls) = Cardinality(Resolved(ev))
    /\ \A i \in Resolved(ev) :
         legendUrls[Rank(Resolved(ev), i)] = createObjectURL(ev.id.layers[i], ev.id.id)
    /\ \A i \in 1..Len(ev.id.layers) : ev.id.layers[i].visible /\ ev.id.layers[i].wms
    /\ \A i \in 1..Len(maps[ev.id.id].layers) :
         LET l == maps[ev.id.id].layers[i]
         IN (l.visible /\ l.wms) => \E j \in 1..Len(ev.id.layers) : ev.id.layers[j] = l
    /\ ev.calls = << >>

\* A batch of two fetches settled with the first rejected and the second
\* resolved.
C10_Witness ==
  /\ ev.op = "legend" /\ mounted
  /\ Len(ev.id.layers) = 2
  /\ ~ev.res.val[1] /\ ev.res.val[2]
  /\ Len(legendUrls) = 1

\* C11: for every count N >= 1 the style returned has radius
\* clamp(0.75 * N, 8, 20) (8 up to N = 10, 20 from N = 27 on) and is green
\* for N <= 8, orange for 8 < N <= 25 and red for N > 25.
C11_StyleBuckets ==
  (ev.op = "style" /\ ev.id >= 1) =>
    LET N == ev.id
        style == ev.res.val
    IN /\ 4 * style.radius4 = (IF 3 * N < 32 THEN 128 ELSE IF 3 * N > 80 THEN 320 ELSE 12 * N)
       /\ (N <= 8) <=> (style.color = "0,128,0")
       /\ (8 < N /\ N <= 25) <=> (style.color = "255,128,0")
       /\ (N > 25) <=> (style.color = "192,0,0")
       /\ (N = 8 => style.color = "0,128,0") /\ (N = 9 => style.color = "255,128,0")
       /\ (N = 25 => style.color = "255,128,0") /\ (N = 26 => style.color = "192,0,0")

\* The style of count 26 was returned: red, radius 19.5.
C11_Witness ==
  ev.op = "style" /\ ev.id = 26 /\ ev.res.val.color = "192,0,0" /\ ev.res.val.radius4 = 78

\* C12: a call with a non-empty count N returns the object the cache holds
\* for N, and a step never replaces or removes an entry of the cache; so any
\* two calls with the same count return the identical object.
C12_Memoized ==
  [][ /\ \A k \in DOMAIN styleCache :
           k \in DOMAIN styleCache' /\ styleCache'[k] = styleCache[k]
      /\ (ev'.op = "style" /\ ev'.id # 0) =>
           (ev'.id \in DOMAIN styleCache' /\ ev'.res.val = styleCache'[ev'.id]) ]_vars

\* A call was served from the cache: with two entries cached, the older
\* object was returned.
C12_Witness ==
  /\ ev.op = "style" /\ ev.id # 0
  /\ Cardinality(DOMAIN styleCache) = 2
  /\ ev.res.val.id = 1

\* C13: while the frozen flag is set, the current session's map has no
\* control and no interaction.
C13_FrozenBare ==
  (mapRef # 0 /\ props.freezeMap) =>
    (maps[mapRef].controls = {} /\ maps[mapRef].interactions = {})

\* C14: at most one point query is issued per arm(): of the queries in
\* flight, at most one was issued by a click made since the last arm().
C14_OneQueryPerArm ==
  Cardinality({q \in queries : q.fresh}) <= 1

\* C15: in every reachable state the current map holds at most one layer
\* named "navigation-boundary".
C15_OneOutline ==
  mapRef # 0 => Cardinality(OutlinesOf(maps[mapRef])) <= 1

\* C16: the stored aggregates are never replaced by different ones that
\* answer a request issued earlier than the request they came from (requests
\* are numbered in the order they are issued), so after overlapping
\* refreshes have settled the aggregates of the later-issued one are stored.
C16_LaterIssuedWins ==
  [][summary'.req >= summary.req \/ summary'.items = summary.items]_vars

\* C17: once a clip has applied its mask, in every later state of the
\* session in which no clip is in flight every layer of the map whose name
\* is not exempt carries the active mask filter, layers added after the clip
\* included.
C17_MaskCoverage ==
  (mapRef # 0 /\ navigationCropFilter # NoFilter /\ clips = {}) =>
    \A i \in 1..Len(maps[mapRef].layers) :
      maps[mapRef].layers[i].name \notin skipClipLayerNames =>
        <<maps[mapRef].layers[i], navigationCropFilter>> \in layerFilters

\* C18: a clip() call changes the map only by removing the outline layer it
\* closed over (whose source it clears) and attaches no filter; when its
\* boundary fetch rejects, the rejection is reported with exactly one call,
\* on notify.error, and the map's layers, the filters, the outline layer and
\* filter kept in state and the cleared sources are left as they were.
C18_FailedFetch ==
  [][ /\ ev'.op = "clip" =>
           /\ layerFilters' = layerFilters
           /\ clippedBoundary' = clippedBoundary
           /\ navigationCropFilter' = navigationCropFilter
           /\ \A s \in 1..Len(maps) : s # mapRef => maps'[s] = maps[s]
           /\ maps'[mapRef].layers =
                SelectSeq(maps[mapRef].layers, LAMBDA l : l # clippedBoundary)
      /\ (ev'.op = "fetchBoundary" /\ ev'.res.kind = "reject") =>
           /\ Len(ev'.calls) = 1 /\ ev'.calls[1].f = "notify.error"
           /\ maps' = maps
           /\ layerFilters' = layerFilters
           /\ clippedBoundary' = clippedBoundary
           /\ navigationCropFilter' = navigationCropFilter
           /\ clearedSources' = clearedSources ]_vars

\* The fetch of a clip that tore down the outline of an earlier clip was
\* rejected.
C18_Witness ==
  /\ ev.op = "fetchBoundary" /\ ev.res.kind = "reject"
  /\ ev.id.navigationCropFilter # NoFilter
  /\ ev.id.map = mapRef
  /\ clippedBoundary \in clearedSources
  /\ OutlinesOf(maps[mapRef]) = {}
  /\ \E p \in layerFilters : p[2] = navigationCropFilter

\* C19: immediately after a rebuild the new session's layer list is the
\* composed layer list (no "cluster-layer", no "navigation-boundary"), none
\* of its layers carries a mask filter, and no identify listener is
\* installed on it.
C19_RebuildResets ==
  ev.op = "render" =>
    /\ maps[mapRef].layers = groups
    /\ \A i \in 1..Len(maps[mapRef].layers) :
         maps[mapRef].layers[i].name \notin {"cluster-layer", "navigation-boundary"}
    /\ \A i \in 1..Len(maps[mapRef].layers) : FiltersOf(maps[mapRef].layers[i]) = {}
    /\ "identify" \notin maps[mapRef].listeners

\* C20: in every state with no clip in flight (and none ever started while
\* another was in flight), the mask filters carried by
\* layers of the current map and the "navigation-boundary" layers of that
\* map belong to the same boundaries: every mask has its outline and every
\* outline its mask.
MasksOn(m) == UNION {FiltersOf(m.layers[i]) : i \in 1..Len(m.layers)}

C20_OutlineMaskCoherent ==
  (mapRef # 0 /\ clips = {} /\ ~overlapped) =>
    LET m == maps[mapRef]
    IN /\ \A f \in MasksOn(m) : \E i \in OutlinesOf(m) : m.layers[i].gen = f.id
       /\ \A i \in OutlinesOf(m) : \E f \in MasksOn(m) : f.id = m.layers[i].gen

====
